---- MODULE Spec2Model ----
(***************************************************************************)
(* Change-synchronization subsystem of the MQTT bridge configuration UI:   *)
(* the JSON patch generator (generateJSONPatch), the canonicalization step  *)
(* (cleanConfig) and the App component's load / save handlers.              *)
(*                                                                         *)
(* JSON values are tagged records:                                         *)
(*   [t |-> "null"], [t |-> "bool", v |-> BOOLEAN], [t |-> "num", v |-> n], *)
(*   [t |-> "str", v |-> <<chunks>>], [t |-> "arr", v |-> <<values>>],      *)
(*   [t |-> "obj", v |-> [keys -> values]]                                  *)
(* A string is the sequence of its chunks, so that concatenation is        *)
(* sequence concatenation.  A pointer path is the sequence of the tokens    *)
(* that stand between the "/" of the path string.                           *)
(***************************************************************************)
EXTENDS Integers, Sequences, FiniteSets, TLC

(***************************************************************************)
(* Bounds                                                                  *)
(***************************************************************************)
\* longest sequence of scalars in the bounded Value domain
MaxLen == 3
\* longest sequence of composite elements in the bounded Value domain
MaxNest == 2
\* most bridges the working document holds
MaxBridges == 2
\* most user interactions (edits and saves) of one run
MaxSteps == 3

(***************************************************************************)
(* Value model                                                             *)
(***************************************************************************)
Null == [t |-> "null"]

\* what reading a missing property yields
Undefined == [t |-> "undef"]

Bool(b) == [t |-> "bool", v |-> b]

Num(n) == [t |-> "num", v |-> n]

Str(s) == [t |-> "str", v |-> s]

Arr(s) == [t |-> "arr", v |-> s]

Obj(f) == [t |-> "obj", v |-> f]

\* Max, taking the smaller of the two
Min(a, b) == IF a <= b THEN a ELSE b

Max(a, b) == IF a >= b THEN a ELSE b

\* Array.isArray(x)
IsArray(x) == x.t = "arr"

\* typeof x === "object" && x !== null
IsObject(x) == x.t \in {"arr", "obj"}

\* the property name of array index i (zero-based)
IndexKey(i) == ToString(i)

\* the keys the model's objects use, in the order Object.keys lists them:
\* integer-like keys ascending first, then the others
KeyUniverse ==
  [i \in 1..(MaxLen + MaxNest + 2) |-> IndexKey(i - 1)] \o
  << "a", "b", "bridges", "name", "brokers", "network", "instance_name",
     "protocol", "encryption", "transport", "in", "in6", "rc", "l2", "un",
     "host", "port", "channel", "psm", "path", "mqtt", "client_id",
     "keep_alive", "clean_session", "will_topic", "will_message", "will_qos",
     "will_retain", "username", "password", "loop_prevention", "topics",
     "topic", "qos", "disabled", "session_store", "prefix" >>

\* the keys of a set, as a sequence
KeySeq(S) == SelectSeq(KeyUniverse, LAMBDA k : k \in S)

\* the set Object.keys(x) of an array or object
KeySet(x) ==
  IF x.t = "arr" THEN {IndexKey(i - 1) : i \in 1..Len(x.v)}
  ELSE IF x.t = "obj" THEN DOMAIN x.v
  ELSE {}

\* key in x
In(key, x) == key \in KeySet(x)

\* the array index a key names, or -1
ParseIndex(key) ==
  IF \E i \in 0..(Len(KeyUniverse)) : IndexKey(i) = key
  THEN CHOOSE i \in 0..(Len(KeyUniverse)) : IndexKey(i) = key
  ELSE -1

\* x[key]
Get(x, key) ==
  IF ~In(key, x) THEN Undefined
  ELSE IF x.t = "arr" THEN x.v[ParseIndex(key) + 1]
  ELSE x.v[key]

\* StringifyDiffers, without the comparison
StringifyDiffersAlways(a, b) == TRUE

\* JSON.stringify(a) !== JSON.stringify(b): structural inequality.  Two
\* objects that differ only in key order stringify differently, but the
\* recursion that follows then finds no difference and emits nothing, so the
\* result is that of structural comparison.
StringifyDiffers(a, b) == a # b

RECURSIVE Flatten(_)
Flatten(ss) == IF ss = <<>> THEN <<>> ELSE Head(ss) \o Flatten(Tail(ss))

(***************************************************************************)
(* Diff engine                                                             *)
(***************************************************************************)
RemoveOp(p) == [op |-> "remove", path |-> p]

\* AddOp, with the op name of a replacement
AddOpAsReplace(p, val) == [op |-> "replace", path |-> p, value |-> val]

AddOp(p, val) == [op |-> "add", path |-> p, value |-> val]

\* ReplaceOp, with the op name of an insertion
ReplaceOpAsAdd(p, val) == [op |-> "add", path |-> p, value |-> val]

ReplaceOp(p, val) == [op |-> "replace", path |-> p, value |-> val]

\* path || "/" : the empty path string becomes "/", whose only token is ""
RootPath(path) == IF path = <<>> THEN << "" >> ELSE path

RECURSIVE generateJSONPatch(_, _, _)
generateJSONPatch(oldObj, newObj, path) ==
  IF IsArray(oldObj) /\ IsArray(newObj) THEN
    LET maxLength == Max(Len(oldObj.v), Len(newObj.v))
        ElementPatches(i) ==
          LET elementPath == Append(path, IndexKey(i))
              oldElement == Get(oldObj, IndexKey(i))
              newElement == Get(newObj, IndexKey(i))
          IN IF i >= Len(newObj.v) THEN << RemoveOp(elementPath) >>
             ELSE IF i >= Len(oldObj.v) THEN << AddOp(elementPath, newElement) >>
             ELSE IF StringifyDiffers(oldElement, newElement) THEN
               IF IsObject(oldElement) /\ IsObject(newElement)
               THEN generateJSONPatch(oldElement, newElement, elementPath)
               ELSE << ReplaceOp(elementPath, newElement) >>
             ELSE <<>>
    IN Flatten([n \in 1..maxLength |-> ElementPatches(n - 1)])
  ELSE IF IsObject(oldObj) /\ IsObject(newObj) THEN
    LET allKeys == KeySeq(KeySet(oldObj)) \o KeySeq(KeySet(newObj) \ KeySet(oldObj))
        KeyPatches(key) ==
          LET newPath == Append(path, key)
              oldValue == Get(oldObj, key)
              newValue == Get(newObj, key)
          IN IF ~In(key, newObj) THEN << RemoveOp(newPath) >>
             ELSE IF ~In(key, oldObj) THEN << AddOp(newPath, newValue) >>
             ELSE IF StringifyDiffers(oldValue, newValue) THEN
               IF IsObject(oldValue) /\ IsObject(newValue)
               THEN generateJSONPatch(oldValue, newValue, newPath)
               ELSE << ReplaceOp(newPath, newValue) >>
             ELSE <<>>
    IN Flatten([n \in 1..Len(allKeys) |-> KeyPatches(allKeys[n])])
  ELSE IF oldObj # newObj THEN << ReplaceOp(RootPath(path), newObj) >>
  ELSE <<>>

(***************************************************************************)
(* Patch applier: the consumer of the PATCH request body, one op at a time, *)
(* each against the document the previous op produced.                     *)
(***************************************************************************)
Failed == [t |-> "error"]

\* s without its i-th element (one-based)
RemoveAt(s, i) == [j \in 1..(Len(s) - 1) |-> IF j < i THEN s[j] ELSE s[j + 1]]

\* s with val inserted before its i-th element (one-based, i <= Len(s) + 1)
InsertAt(s, i, val) ==
  [j \in 1..(Len(s) + 1) |-> IF j < i THEN s[j] ELSE IF j = i THEN val ELSE s[j - 1]]

\* f with key bound to val
Put(f, key, val) == [k \in DOMAIN f \cup {key} |-> IF k = key THEN val ELSE f[k]]

\* f without key
Drop(f, key) == [k \in DOMAIN f \ {key} |-> f[k]]

\* the op applied to the member of target that the token names
ApplyMember(target, key, op) ==
  IF target.t = "obj" THEN
    IF op.op = "add" THEN Obj(Put(target.v, key, op.value))
    ELSE IF key \notin DOMAIN target.v THEN Failed
    ELSE IF op.op = "replace" THEN Obj(Put(target.v, key, op.value))
    ELSE Obj(Drop(target.v, key))
  ELSE IF target.t = "arr" THEN
    LET i == ParseIndex(key)
    IN IF i < 0 THEN Failed
       ELSE IF op.op = "add" THEN
         IF i > Len(target.v) THEN Failed ELSE Arr(InsertAt(target.v, i + 1, op.value))
       ELSE IF i >= Len(target.v) THEN Failed
       ELSE IF op.op = "replace" THEN Arr([target.v EXCEPT ![i + 1] = op.value])
       ELSE Arr(RemoveAt(target.v, i + 1))
  ELSE Failed

RECURSIVE ApplyAt(_, _, _)
ApplyAt(target, path, op) ==
  IF target = Failed THEN Failed
  ELSE IF path = <<>> THEN (IF op.op = "remove" THEN Failed ELSE op.value)
  ELSE IF Len(path) = 1 THEN ApplyMember(target, path[1], op)
  ELSE IF ~In(path[1], target) THEN Failed
  ELSE LET child == ApplyAt(Get(target, path[1]), Tail(path), op)
       IN IF child = Failed THEN Failed
          ELSE IF target.t = "arr"
            THEN Arr([target.v EXCEPT ![ParseIndex(path[1]) + 1] = child])
            ELSE Obj(Put(target.v, path[1], child))

applyOp(document, op) == ApplyAt(document, op.path, op)

(***************************************************************************)
(* Document defaults                                                       *)
(***************************************************************************)
defaultMqtt ==
  Obj([client_id |-> Str(<<>>), keep_alive |-> Num(60), clean_session |-> Bool(TRUE),
       will_topic |-> Str(<<>>), will_message |-> Str(<<>>), will_qos |-> Num(0),
       will_retain |-> Bool(FALSE), username |-> Str(<<>>), password |-> Str(<<>>),
       loop_prevention |-> Bool(FALSE)])

defaultTopic == Obj([topic |-> Str(<< "#" >>), qos |-> Num(0)])

defaultNetwork ==
  Obj([instance_name |-> Str(<<>>), protocol |-> Str(<< "in" >>),
       encryption |-> Str(<< "legacy" >>), transport |-> Str(<< "stream" >>),
       in |-> Obj([host |-> Str(<<>>), port |-> Num(1883)])])

defaultBroker ==
  Obj([session_store |-> Str(<<>>), mqtt |-> defaultMqtt, network |-> defaultNetwork,
       topics |-> Arr(<< defaultTopic >>)])

defaultBridge ==
  Obj([name |-> Str(<<>>), brokers |-> Arr(<< defaultBroker, defaultBroker >>)])

\* the initial value of the config state of App
InitialConfig == Obj([bridges |-> Arr(<< defaultBridge >>)])

(***************************************************************************)
(* Canonicalization                                                        *)
(***************************************************************************)
\* the truthiness of a value in a condition
Truthy(x) ==
  CASE x.t = "bool" -> x.v
    [] x.t = "num" -> x.v # 0
    [] x.t = "str" -> x.v # <<>>
    [] x.t \in {"arr", "obj"} -> TRUE
    [] OTHER -> FALSE

\* PutIf, with the condition left out
PutAlways(f, cond, key, val) == Put(f, key, val)

\* f, with key bound to val when cond holds
PutIf(f, cond, key, val) == IF cond THEN Put(f, key, val) ELSE f

\* the address field the protocol selects, when it names one
AddressKey(protocol) ==
  IF protocol.t = "str" /\ Len(protocol.v) = 1
     /\ protocol.v[1] \in {"in", "in6", "rc", "l2", "un"}
  THEN protocol.v[1]
  ELSE ""

cleanNetwork(network) ==
  LET base == [instance_name |-> Get(network, "instance_name"),
               protocol |-> Get(network, "protocol"),
               encryption |-> Get(network, "encryption"),
               transport |-> Get(network, "transport")]
      key == AddressKey(Get(network, "protocol"))
  IN Obj(PutIf(base, key # "" /\ Truthy(Get(network, key)), key, Get(network, key)))

cleanBroker(broker) ==
  LET mqtt == Get(broker, "mqtt")
      base == [network |-> cleanNetwork(Get(broker, "network")),
               mqtt |-> IF Truthy(mqtt) THEN mqtt ELSE Obj(<<>>),
               topics |-> Get(broker, "topics")]
      withDisabled ==
        PutIf(base, Truthy(Get(broker, "disabled")), "disabled", Get(broker, "disabled"))
      withStore ==
        PutIf(withDisabled, Truthy(Get(broker, "session_store")), "session_store",
              Get(broker, "session_store"))
  IN Obj(PutIf(withStore, Truthy(Get(broker, "prefix")), "prefix", Get(broker, "prefix")))

cleanBridge(bridge) ==
  LET brokers == Get(bridge, "brokers").v
      base == [name |-> Get(bridge, "name"),
               brokers |-> Arr([j \in 1..Len(brokers) |-> cleanBroker(brokers[j])])]
      withDisabled ==
        PutIf(base, Truthy(Get(bridge, "disabled")), "disabled", Get(bridge, "disabled"))
  IN Obj(PutIf(withDisabled, Truthy(Get(bridge, "prefix")), "prefix", Get(bridge, "prefix")))

cleanConfig(cfg) ==
  LET bridges == Get(cfg, "bridges").v
  IN Obj([bridges |-> Arr([i \in 1..Len(bridges) |-> cleanBridge(bridges[i])])])

(***************************************************************************)
(* State of the App component and of the diff/apply runs                   *)
(***************************************************************************)
VARIABLES
  config,              \* the config state of App: the working document
  latestConfigRef,     \* latestConfigRef.current
  lastSavedConfigRef,  \* lastSavedConfigRef.current: the baseline, or Null
  isLoading,           \* TRUE while the GET of loadConfig is awaited
  requests,            \* the PATCH requests awaiting their response, oldest first
  toasts,              \* the notifications shown so far, oldest first
  steps,               \* how many user interactions have been handled
  oldV,                \* diff run: the old value
  newV,                \* diff run: the new value
  emitted,             \* diff run: the ops generateJSONPatch returned
  applied,             \* diff run: how many of the emitted ops have been applied
  doc,                 \* diff run: the document the applied ops produced
  phase,               \* diff run: "idle", "start", "apply" or "done"
  mounted,             \* TRUE once the mount effect of App has run
  cleanups,            \* how many times the cleanup of the mount effect has run
  eventSourceRef,      \* eventSourceRef.current: a handle, or NoHandle
  sources,             \* the EventSource objects created so far, by handle
  reconnectTimeoutRef, \* reconnectTimeoutRef.current: a timer id, or NoTimer
  timers,              \* the timeouts set and neither fired nor cleared
  timerIds,            \* how many timeouts have been set
  attempts,            \* how many times new EventSource(...) has been called
  failures,            \* how many channel failures have occurred
  elapsed,             \* the time since the most recent channel failure
  delivered,           \* how many events the EventSource objects have received
  bridgeStates,        \* the bridgeStates state of App
  brokerStates,        \* the brokerStates state of App
  bridgesSystemState,  \* the bridgesSystemState state of App
  systemStartTime      \* the systemStartTime state of App

appVars == << config, latestConfigRef, lastSavedConfigRef, isLoading, requests, toasts, steps >>

diffVars == << oldV, newV, emitted, applied, doc, phase >>

channelVars ==
  << mounted, cleanups, eventSourceRef, sources, reconnectTimeoutRef, timers, timerIds,
     attempts, failures, elapsed >>

statusVars == << delivered, bridgeStates, brokerStates, bridgesSystemState, systemStartTime >>

sseVars == << channelVars, statusVars >>

vars == << config, latestConfigRef, lastSavedConfigRef, isLoading, requests, toasts, steps,
           oldV, newV, emitted, applied, doc, phase, channelVars, statusVars >>

LoadSucceeded == "Configuration loaded successfully"

LoadFailed == "Failed to load configuration"

SaveFailed == "Failed to save configuration"

bridgesOf(cfg) == Get(cfg, "bridges").v

(***************************************************************************)
(* Sync client: sendPatchToServer up to its await                          *)
(***************************************************************************)
\* Sent, with a missing baseline read as the empty document
SentWithoutBaselineCheck(newConfig) ==
  LET cleanedOld == cleanConfig(IF Truthy(lastSavedConfigRef) THEN lastSavedConfigRef
                                ELSE Obj([bridges |-> Arr(<<>>)]))
      cleanedNew == cleanConfig(newConfig)
      patch == generateJSONPatch(cleanedOld, cleanedNew, <<>>)
  IN IF Len(patch) = 0 THEN requests
     ELSE Append(requests,
                 [patch |-> patch, newConfig |-> newConfig, cleanedOld |-> cleanedOld])

\* Sent, without the early return on an empty patch
SentEvenIfEmpty(newConfig) ==
  IF ~Truthy(lastSavedConfigRef) THEN requests
  ELSE LET cleanedOld == cleanConfig(lastSavedConfigRef)
           cleanedNew == cleanConfig(newConfig)
           patch == generateJSONPatch(cleanedOld, cleanedNew, <<>>)
       IN Append(requests,
                 [patch |-> patch, newConfig |-> newConfig, cleanedOld |-> cleanedOld])

\* the requests in flight once sendPatchToServer(newConfig) reaches its await
\* or returns early
Sent(newConfig) ==
  IF ~Truthy(lastSavedConfigRef) THEN requests
  ELSE LET cleanedOld == cleanConfig(lastSavedConfigRef)
           cleanedNew == cleanConfig(newConfig)
           patch == generateJSONPatch(cleanedOld, cleanedNew, <<>>)
       IN IF Len(patch) = 0 THEN requests
          ELSE Append(requests,
                      [patch |-> patch, newConfig |-> newConfig, cleanedOld |-> cleanedOld])

\* a user interaction, while the run's budget lasts
Interaction ==
  /\ steps < MaxSteps
  /\ steps' = steps + 1

sendPatchToServer(newConfig) ==
  /\ requests' = Sent(newConfig)
  /\ UNCHANGED << lastSavedConfigRef, isLoading >>

\* an edit handler that stores the new document and saves it at once
EditAndSend(newConfig) ==
  /\ config' = newConfig
  /\ latestConfigRef' = newConfig
  /\ UNCHANGED toasts
  /\ Interaction
  /\ sendPatchToServer(newConfig)
  /\ UNCHANGED diffVars
  /\ UNCHANGED sseVars

addBridge ==
  /\ Len(bridgesOf(config)) < MaxBridges
  /\ EditAndSend(Obj([bridges |-> Arr(Append(bridgesOf(config), defaultBridge))]))

removeBridge(index) ==
  EditAndSend(Obj([bridges |-> Arr(RemoveAt(bridgesOf(config), index + 1))]))

\* the name of the copy of a bridge
CopyName(name) ==
  IF Truthy(name) THEN Str(Append(name.v, "-copy")) ELSE Str(<< "copy" >>)

duplicateBridge(index) ==
  LET bridgeToDuplicate == bridgesOf(config)[index + 1]
      name == Get(bridgeToDuplicate, "name")
      duplicatedBridge == Obj(Put(bridgeToDuplicate.v, "name", CopyName(name)))
  IN /\ Len(bridgesOf(config)) < MaxBridges
     /\ EditAndSend(Obj([bridges |-> Arr(Append(bridgesOf(config), duplicatedBridge))]))

\* updateBridge, with the baseline the very object the edit changes when it
\* equals the working document
updateBridgeAliased(index, bridge) ==
  /\ config' = Obj([bridges |-> Arr([bridgesOf(config) EXCEPT ![index + 1] = bridge])])
  /\ latestConfigRef' = config'
  /\ lastSavedConfigRef' = IF lastSavedConfigRef = config THEN config' ELSE lastSavedConfigRef
  /\ UNCHANGED toasts
  /\ Interaction
  /\ UNCHANGED << isLoading, requests >>
  /\ UNCHANGED diffVars
  /\ UNCHANGED sseVars

updateBridge(index, bridge) ==
  /\ config' = Obj([bridges |-> Arr([bridgesOf(config) EXCEPT ![index + 1] = bridge])])
  /\ latestConfigRef' = config'
  /\ UNCHANGED toasts
  /\ Interaction
  /\ UNCHANGED << lastSavedConfigRef, isLoading, requests >>
  /\ UNCHANGED diffVars
  /\ UNCHANGED sseVars

handleSaveToServer ==
  /\ UNCHANGED toasts
  /\ Interaction
  /\ sendPatchToServer(latestConfigRef)
  /\ UNCHANGED << config, latestConfigRef >>
  /\ UNCHANGED diffVars
  /\ UNCHANGED sseVars

(***************************************************************************)
(* Bridge form: the bridges its onChange hands to updateBridge             *)
(***************************************************************************)
\* the names typed into the name field
Names == {<<>>, << "a" >>}

\* updateField(field, value) of the bridge form
updateField(bridge, field, value) == Obj(Put(bridge.v, field, value))

\* the name field, the enabled checkbox and the delete button of the last broker
BridgeEdits(bridge) ==
  LET brokers == Get(bridge, "brokers").v
  IN {updateField(bridge, "name", Str(n)) : n \in Names}
     \cup {updateField(bridge, "disabled", Bool(~Truthy(Get(bridge, "disabled"))))}
     \cup {updateField(bridge, "brokers", Arr(RemoveAt(brokers, j))) : j \in {Len(brokers)} \ {0}}

(***************************************************************************)
(* Server responses                                                        *)
(***************************************************************************)
\* a broker as the server stores it: optional fields absent
serverBroker == Obj([network |-> defaultNetwork, topics |-> Arr(<< defaultTopic >>)])

serverBridge == Obj([name |-> Str(<< "a" >>), brokers |-> Arr(<< serverBroker >>)])

\* the documents the GET endpoint returns
ServerDocs ==
  {Obj([bridges |-> Arr(<<>>)]), Obj([bridges |-> Arr(<< serverBridge >>)])}

\* a body response.json() cannot parse
Unparsable == [t |-> "unparsable"]

\* bodies that are no document
MalformedBodies ==
  {Unparsable, Null, Num(1), Arr(<<>>), Obj(<<>>), Obj([bridges |-> Obj(<<>>)])}

LoadResponses == [ok : BOOLEAN, body : ServerDocs \cup MalformedBodies]

\* the checks of loadConfig on the parsed body
ValidConfig(data) == IsObject(data) /\ IsArray(Get(data, "bridges"))

\* loadConfig, without the checks on the parsed body
loadConfigUnchecked(response) ==
  /\ isLoading
  /\ isLoading' = FALSE
  /\ IF response.ok /\ response.body # Unparsable
     THEN /\ config' = response.body
          /\ lastSavedConfigRef' = response.body
          /\ latestConfigRef' = response.body
          /\ toasts' = Append(toasts, LoadSucceeded)
     ELSE /\ toasts' = Append(toasts, LoadFailed)
          /\ lastSavedConfigRef' = InitialConfig
          /\ latestConfigRef' = InitialConfig
          /\ UNCHANGED config
  /\ UNCHANGED << requests, steps >>
  /\ UNCHANGED diffVars
  /\ UNCHANGED sseVars

\* the GET of loadConfig resolves; config in its catch block is the state the
\* mounting render closed over
loadConfig(response) ==
  /\ isLoading
  /\ isLoading' = FALSE
  /\ IF response.ok /\ ValidConfig(response.body)
     THEN /\ config' = response.body
          /\ lastSavedConfigRef' = response.body
          /\ latestConfigRef' = response.body
          /\ toasts' = Append(toasts, LoadSucceeded)
     ELSE /\ toasts' = Append(toasts, LoadFailed)
          /\ lastSavedConfigRef' = InitialConfig
          /\ latestConfigRef' = InitialConfig
          /\ UNCHANGED config
  /\ UNCHANGED << requests, steps >>
  /\ UNCHANGED diffVars
  /\ UNCHANGED sseVars

\* patchResponse, with the baseline taken from the working document of the
\* moment the response arrives
patchResponseLatest(i, ok) ==
  /\ i \in 1..Len(requests)
  /\ requests' = RemoveAt(requests, i)
  /\ IF ok
     THEN /\ lastSavedConfigRef' = latestConfigRef
          /\ UNCHANGED toasts
     ELSE /\ toasts' = Append(toasts, SaveFailed)
          /\ UNCHANGED lastSavedConfigRef
  /\ UNCHANGED << config, latestConfigRef, isLoading, steps >>
  /\ UNCHANGED diffVars
  /\ UNCHANGED sseVars

\* patchResponse, with the baseline advanced before the response is looked at
patchResponseEager(i, ok) ==
  /\ i \in 1..Len(requests)
  /\ requests' = RemoveAt(requests, i)
  /\ lastSavedConfigRef' = requests[i].newConfig
  /\ toasts' = IF ok THEN toasts ELSE Append(toasts, SaveFailed)
  /\ UNCHANGED << config, latestConfigRef, isLoading, steps >>
  /\ UNCHANGED diffVars
  /\ UNCHANGED sseVars

\* patchResponse, with a failed request sent again at once
patchResponseRetry(i, ok) ==
  /\ i \in 1..Len(requests)
  /\ IF ok
     THEN /\ requests' = RemoveAt(requests, i)
          /\ lastSavedConfigRef' = requests[i].newConfig
          /\ UNCHANGED toasts
     ELSE /\ requests' = Append(RemoveAt(requests, i), requests[i])
          /\ toasts' = Append(toasts, SaveFailed)
          /\ UNCHANGED lastSavedConfigRef
  /\ UNCHANGED << config, latestConfigRef, isLoading, steps >>
  /\ UNCHANGED diffVars
  /\ UNCHANGED sseVars

\* the PATCH of the i-th request in flight resolves
patchResponse(i, ok) ==
  /\ i \in 1..Len(requests)
  /\ requests' = RemoveAt(requests, i)
  /\ IF ok
     THEN /\ lastSavedConfigRef' = requests[i].newConfig
          /\ UNCHANGED toasts
     ELSE /\ toasts' = Append(toasts, SaveFailed)
          /\ UNCHANGED lastSavedConfigRef
  /\ UNCHANGED << config, latestConfigRef, isLoading, steps >>
  /\ UNCHANGED diffVars
  /\ UNCHANGED sseVars

(***************************************************************************)
(* The App component                                                       *)
(***************************************************************************)
\* the null of eventSourceRef
NoHandle == 0

\* the null of reconnectTimeoutRef
NoTimer == 0

\* the refs of the event channel as useRef creates them, before the mount
\* effect has run
ChannelInit ==
  /\ mounted = FALSE
  /\ cleanups = 0
  /\ eventSourceRef = NoHandle
  /\ sources = <<>>
  /\ reconnectTimeoutRef = NoTimer
  /\ timers = {}
  /\ timerIds = 0
  /\ attempts = 0
  /\ failures = 0
  /\ elapsed = 0

\* the status states as useState creates them
StatusInit ==
  /\ delivered = 0
  /\ bridgeStates = <<>>
  /\ brokerStates = <<>>
  /\ bridgesSystemState = Null
  /\ systemStartTime = Null

AppInit ==
  /\ config = InitialConfig
  /\ latestConfigRef = InitialConfig
  /\ lastSavedConfigRef = Null
  /\ isLoading = TRUE
  /\ requests = <<>>
  /\ toasts = <<>>
  /\ steps = 0
  /\ ChannelInit
  /\ StatusInit

Init ==
  /\ AppInit
  /\ oldV = Null
  /\ newV = Null
  /\ emitted = <<>>
  /\ applied = 0
  /\ doc = Null
  /\ phase = "idle"

RemoveBridgeStep == \E index \in 0..(Len(bridgesOf(config)) - 1) : removeBridge(index)

DuplicateBridgeStep == \E index \in 0..(Len(bridgesOf(config)) - 1) : duplicateBridge(index)

UpdateBridgeStep ==
  \E index \in 0..(Len(bridgesOf(config)) - 1) :
    \E bridge \in BridgeEdits(bridgesOf(config)[index + 1]) : updateBridge(index, bridge)

LoadStep == \E response \in LoadResponses : loadConfig(response)

PatchResponseStep == \E i \in 1..Len(requests) : \E ok \in BOOLEAN : patchResponse(i, ok)

Next ==
  \/ addBridge
  \/ RemoveBridgeStep
  \/ DuplicateBridgeStep
  \/ UpdateBridgeStep
  \/ handleSaveToServer
  \/ LoadStep
  \/ PatchResponseStep

Spec == Init /\ [][Next]_vars

(***************************************************************************)
(* Diff and apply runs over the bounded Value domain                       *)
(***************************************************************************)
\* the sequences over S of length at most n
SeqsUpTo(S, n) == UNION {[1..k -> S] : k \in 0..n}

\* the objects over the keys of K with values in S
ObjectsOver(K, S) == {Obj(f) : f \in UNION {[D -> S] : D \in SUBSET K}}

Scalars == {Null, Bool(TRUE), Num(1), Num(2), Str(<< "a" >>)}

FlatValues ==
  {Arr(s) : s \in SeqsUpTo({Num(1), Num(2)}, MaxLen)}
    \cup ObjectsOver({"a", "b"}, {Num(1), Num(2)})

\* the elements of the nested values
Elements ==
  {Num(1)} \cup {Arr(s) : s \in SeqsUpTo({Num(1)}, MaxNest)}
    \cup {Obj([a |-> Num(1)]), Obj([a |-> Num(2)])}

NestedValues ==
  {Arr(s) : s \in SeqsUpTo(Elements, MaxNest)} \cup ObjectsOver({"a", "b"}, Elements)

\* a sequence of three different scalars, what is left of it when its first
\* or its second element is deleted, and the same under a key
ShiftedValues ==
  LET whole == Arr(<< Num(1), Num(2), Str(<< "a" >>) >>)
      first == Arr(<< Num(2), Str(<< "a" >>) >>)
      second == Arr(<< Num(1), Str(<< "a" >>) >>)
  IN {whole, first, second, Obj([a |-> whole]), Obj([a |-> second])}

Values == Scalars \cup FlatValues \cup NestedValues \cup ShiftedValues

DiffInit ==
  /\ AppInit
  /\ oldV \in Values
  /\ newV \in Values
  /\ emitted = <<>>
  /\ applied = 0
  /\ doc = oldV
  /\ phase = "start"

\* diff(oldV, newV) with the default path
Diff ==
  /\ phase = "start"
  /\ emitted' = generateJSONPatch(oldV, newV, <<>>)
  /\ phase' = "apply"
  /\ UNCHANGED << oldV, newV, applied, doc >>
  /\ UNCHANGED appVars
  /\ UNCHANGED sseVars

\* the next emitted op, applied to the document the previous ops produced
ApplyNext ==
  /\ phase = "apply"
  /\ applied < Len(emitted)
  /\ doc # Failed
  /\ doc' = applyOp(doc, emitted[applied + 1])
  /\ applied' = applied + 1
  /\ UNCHANGED << oldV, newV, emitted, phase >>
  /\ UNCHANGED appVars
  /\ UNCHANGED sseVars

\* every op is applied, or one could not be
Finish ==
  /\ phase = "apply"
  /\ applied = Len(emitted) \/ doc = Failed
  /\ phase' = "done"
  /\ UNCHANGED << oldV, newV, emitted, applied, doc >>
  /\ UNCHANGED appVars
  /\ UNCHANGED sseVars

DiffNext == Diff \/ ApplyNext \/ Finish

DiffSpec == DiffInit /\ [][DiffNext]_vars

(***************************************************************************)
(* Live event channel: connectToSSE, the error handler of the EventSource,  *)
(* the reconnect timeout and the cleanup of the mount effect.  An           *)
(* EventSource dispatches events, the error event included, only until it   *)
(* is closed.                                                              *)
(***************************************************************************)
\* most channel failures of one run
MaxFailures == 2
\* most runs of the cleanup of one run
MaxCleanups == 2
\* most events dispatched in one run
MaxEvents == 2
\* most events, channel failures reported by an EventSource and user
\* interactions of one run of the event channel, taken together
MaxInputs == 2

\* the delay of the reconnect timeout, in milliseconds
ReconnectDelay == 5000

\* the event names connectToSSE adds a listener for
events ==
  { "bridges_starting", "bridges_started", "bridges_stopping", "bridges_stopped",
    "bridge_disabled", "bridge_starting", "bridge_started", "bridge_stopping",
    "bridge_stopped", "broker_disabled", "broker_connecting", "broker_connected",
    "broker_disconnecting", "broker_disconnected" }

\* an EventSource as connectToSSE leaves it
OpenSource == [readyState |-> "open", listeners |-> events]

\* the EventSource objects after close() of the one the ref holds, if any
Closed(srcs, ref) ==
  IF ref = NoHandle THEN srcs ELSE [srcs EXCEPT ![ref].readyState = "closed"]

\* the pending timeouts after clearTimeout of the one the ref holds, if any
Cleared(pending, ref) ==
  IF ref = NoTimer THEN pending ELSE {t \in pending : t.id # ref}

\* SetReconnect, with a ceiling of one retry
SetReconnectOnce(pending) ==
  /\ failures < MaxFailures
  /\ failures' = failures + 1
  /\ elapsed' = 0
  /\ IF failures = 0
     THEN /\ timerIds' = timerIds + 1
          /\ reconnectTimeoutRef' = timerIds + 1
          /\ timers' = pending \cup {[id |-> timerIds + 1, remaining |-> ReconnectDelay]}
     ELSE /\ timers' = pending
          /\ UNCHANGED << timerIds, reconnectTimeoutRef >>

\* window.setTimeout(() => connectToSSE(), 5000): the step sets a new timeout,
\* keeps its id in the ref and counts a channel failure
SetReconnect(pending) ==
  /\ failures < MaxFailures
  /\ failures' = failures + 1
  /\ elapsed' = 0
  /\ timerIds' = timerIds + 1
  /\ reconnectTimeoutRef' = timerIds + 1
  /\ timers' = pending \cup {[id |-> timerIds + 1, remaining |-> ReconnectDelay]}

\* connectToSSE, without the close of the existing connection
connectToSSEKeepingOld(pending, created) ==
  /\ attempts' = attempts + 1
  /\ IF created
     THEN /\ sources' = Append(sources, OpenSource)
          /\ eventSourceRef' = Len(sources) + 1
          /\ reconnectTimeoutRef' = NoTimer
          /\ timers' = Cleared(pending, reconnectTimeoutRef)
          /\ UNCHANGED << timerIds, failures, elapsed >>
     ELSE /\ UNCHANGED << sources, eventSourceRef >>
          /\ SetReconnect(Cleared(pending, reconnectTimeoutRef))

\* connectToSSE, run with the given timeouts pending; created tells whether
\* new EventSource(...) returned or threw
connectToSSE(pending, created) ==
  /\ attempts' = attempts + 1
  /\ IF created
     THEN /\ sources' = Append(Closed(sources, eventSourceRef), OpenSource)
          /\ eventSourceRef' = Len(sources) + 1
          /\ reconnectTimeoutRef' = NoTimer
          /\ timers' = Cleared(pending, reconnectTimeoutRef)
          /\ UNCHANGED << timerIds, failures, elapsed >>
     ELSE /\ sources' = Closed(sources, eventSourceRef)
          /\ UNCHANGED eventSourceRef
          /\ SetReconnect(Cleared(pending, reconnectTimeoutRef))

\* the mount effect of App: loadConfig() has begun its GET, connectToSSE() runs
Mount ==
  /\ ~mounted
  /\ mounted' = TRUE
  /\ \E created \in BOOLEAN : connectToSSE(timers, created)
  /\ UNCHANGED cleanups
  /\ UNCHANGED << appVars, diffVars, statusVars >>

\* eventSource.onerror, without the close of the failed connection
onerrorKeepingOpen(h) ==
  /\ h \in 1..Len(sources)
  /\ sources[h].readyState = "open"
  /\ UNCHANGED << sources, eventSourceRef >>
  /\ SetReconnect(timers)
  /\ UNCHANGED << mounted, cleanups, attempts >>
  /\ UNCHANGED << appVars, diffVars, statusVars >>

\* eventSource.onerror, clearing the status maps for the new connection
onerrorClearing(h) ==
  /\ h \in 1..Len(sources)
  /\ sources[h].readyState = "open"
  /\ sources' = Closed(sources, eventSourceRef)
  /\ eventSourceRef' = NoHandle
  /\ SetReconnect(timers)
  /\ bridgeStates' = <<>>
  /\ brokerStates' = <<>>
  /\ UNCHANGED << mounted, cleanups, attempts >>
  /\ UNCHANGED << appVars, diffVars, delivered, bridgesSystemState, systemStartTime >>

\* eventSource.onerror, without the reset of eventSourceRef
onerrorKeepingRef(h) ==
  /\ h \in 1..Len(sources)
  /\ sources[h].readyState = "open"
  /\ sources' = Closed(sources, eventSourceRef)
  /\ UNCHANGED eventSourceRef
  /\ SetReconnect(timers)
  /\ UNCHANGED << mounted, cleanups, attempts >>
  /\ UNCHANGED << appVars, diffVars, statusVars >>

\* eventSource.onerror of the EventSource h
onerror(h) ==
  /\ h \in 1..Len(sources)
  /\ sources[h].readyState = "open"
  /\ sources' = Closed(sources, eventSourceRef)
  /\ eventSourceRef' = NoHandle
  /\ SetReconnect(timers)
  /\ UNCHANGED << mounted, cleanups, attempts >>
  /\ UNCHANGED << appVars, diffVars, statusVars >>

\* half the delay passes while a timeout is pending and none is due
Tick ==
  /\ timers # {}
  /\ \A t \in timers : t.remaining > 0
  /\ timers' = {[t EXCEPT !.remaining = @ - ReconnectDelay \div 2] : t \in timers}
  /\ elapsed' = elapsed + ReconnectDelay \div 2
  /\ UNCHANGED << mounted, cleanups, eventSourceRef, sources, reconnectTimeoutRef,
                  timerIds, attempts, failures >>
  /\ UNCHANGED << appVars, diffVars, statusVars >>

\* the callback of a due timeout
timeoutFired(t) ==
  /\ t \in timers
  /\ t.remaining <= 0
  /\ \E created \in BOOLEAN : connectToSSE(timers \ {t}, created)
  /\ UNCHANGED << mounted, cleanups >>
  /\ UNCHANGED << appVars, diffVars, statusVars >>

\* the cleanup of the mount effect, without the clearTimeout
cleanupKeepingTimer ==
  /\ mounted
  /\ cleanups < MaxCleanups
  /\ cleanups' = cleanups + 1
  /\ sources' = Closed(sources, eventSourceRef)
  /\ eventSourceRef' = NoHandle
  /\ UNCHANGED << timers, reconnectTimeoutRef >>
  /\ UNCHANGED << mounted, timerIds, attempts, failures, elapsed >>
  /\ UNCHANGED << appVars, diffVars, statusVars >>

\* the cleanup of the mount effect
cleanup ==
  /\ mounted
  /\ cleanups < MaxCleanups
  /\ cleanups' = cleanups + 1
  /\ sources' = Closed(sources, eventSourceRef)
  /\ eventSourceRef' = NoHandle
  /\ timers' = Cleared(timers, reconnectTimeoutRef)
  /\ reconnectTimeoutRef' = NoTimer
  /\ UNCHANGED << mounted, timerIds, attempts, failures, elapsed >>
  /\ UNCHANGED << appVars, diffVars, statusVars >>

(***************************************************************************)
(* Status projection: the listener connectToSSE adds for every event name   *)
(***************************************************************************)
\* the states the bridge_ events name
BridgeEventState ==
  [bridge_disabled |-> "disabled", bridge_starting |-> "starting",
   bridge_started |-> "started", bridge_stopping |-> "stopping",
   bridge_stopped |-> "stopped"]

\* the states the broker_ events name
BrokerEventState ==
  [broker_disabled |-> "disabled", broker_connecting |-> "connecting",
   broker_connected |-> "connected", broker_disconnecting |-> "disconnecting",
   broker_disconnected |-> "disconnected"]

\* the states the bridges_ events name
SystemEventState ==
  [bridges_starting |-> "starting", bridges_started |-> "started",
   bridges_stopping |-> "stopping", bridges_stopped |-> "stopped"]

\* the notification of the catch block of the listener
EventFailed ==
  [bridges_starting |-> "Error processing bridges_starting event",
    bridges_started |-> "Error processing bridges_started event",
    bridges_stopping |-> "Error processing bridges_stopping event",
    bridges_stopped |-> "Error processing bridges_stopped event",
    bridge_disabled |-> "Error processing bridge_disabled event",
    bridge_starting |-> "Error processing bridge_starting event",
    bridge_started |-> "Error processing bridge_started event",
    bridge_stopping |-> "Error processing bridge_stopping event",
    bridge_stopped |-> "Error processing bridge_stopped event",
    broker_disabled |-> "Error processing broker_disabled event",
    broker_connecting |-> "Error processing broker_connecting event",
    broker_connected |-> "Error processing broker_connected event",
    broker_disconnecting |-> "Error processing broker_disconnecting event",
    broker_disconnected |-> "Error processing broker_disconnected event"]

\* the value of Date.now()
Now == [t |-> "now"]

\* instance.includes("+")
HasPlus(chunks) == \E n \in 1..Len(chunks) : chunks[n] = "+"

\* instance.split("+").pop(): what follows the last "+"
AfterLastPlus(chunks) ==
  LET last == CHOOSE n \in 1..Len(chunks) :
                chunks[n] = "+" /\ \A m \in (n + 1)..Len(chunks) : chunks[m] # "+"
  IN SubSeq(chunks, last + 1, Len(chunks))

\* InstanceName, without the split at "+"
InstanceNameWhole(instance) == instance

\* the instanceName of the listener
InstanceName(instance) ==
  IF instance.t = "str" /\ HasPlus(instance.v) THEN Str(AfterLastPlus(instance.v))
  ELSE instance

\* the template literal `${bridge}/${instanceName}` of two strings
BrokerKey(bridge, instanceName) == bridge.v \o << "/" >> \o instanceName.v

\* JSON.parse(event.data) throws, or a property of the parsed null is read
ListenerThrows(data) == data = Unparsable \/ data = Null

\* BridgeStatesAfter, keeping the state an entry already has
BridgeStatesAfterFirstWins(eventName, data) ==
  IF /\ eventName \in DOMAIN BridgeEventState
     /\ Truthy(Get(data, "name"))
     /\ Get(data, "name").v \notin DOMAIN bridgeStates
  THEN Put(bridgeStates, Get(data, "name").v, BridgeEventState[eventName])
  ELSE bridgeStates

\* BridgeStatesAfter, without the test of data.name
BridgeStatesAfterUnchecked(eventName, data) ==
  IF eventName \in DOMAIN BridgeEventState
  THEN Put(bridgeStates,
           IF Truthy(Get(data, "name")) THEN Get(data, "name").v ELSE << "undefined" >>,
           BridgeEventState[eventName])
  ELSE bridgeStates

\* bridgeStates after the listener of eventName has run on data
BridgeStatesAfter(eventName, data) ==
  IF eventName \in DOMAIN BridgeEventState /\ Truthy(Get(data, "name"))
  THEN Put(bridgeStates, Get(data, "name").v, BridgeEventState[eventName])
  ELSE bridgeStates

\* BrokerStatesAfter, writing on every event that names a bridge and an
\* instance
BrokerStatesAfterAnyEvent(eventName, data) ==
  IF Truthy(Get(data, "bridge")) /\ Truthy(Get(data, "instance"))
  THEN Put(brokerStates,
           BrokerKey(Get(data, "bridge"), InstanceName(Get(data, "instance"))),
           IF eventName \in DOMAIN BrokerEventState
           THEN BrokerEventState[eventName] ELSE "disconnected")
  ELSE brokerStates

\* brokerStates after the listener of eventName has run on data
BrokerStatesAfter(eventName, data) ==
  IF /\ Truthy(Get(data, "bridge"))
     /\ Truthy(Get(data, "instance"))
     /\ eventName \in DOMAIN BrokerEventState
  THEN Put(brokerStates,
           BrokerKey(Get(data, "bridge"), InstanceName(Get(data, "instance"))),
           BrokerEventState[eventName])
  ELSE brokerStates

\* the listener of eventName, with the catch block of the earlier version,
\* which logs only
listenerLogOnly(h, eventName, data) ==
  /\ h \in 1..Len(sources)
  /\ sources[h].readyState = "open"
  /\ eventName \in sources[h].listeners
  /\ delivered < MaxEvents
  /\ delivered' = delivered + 1
  /\ UNCHANGED toasts
  /\ IF ListenerThrows(data)
     THEN UNCHANGED << bridgeStates, brokerStates, bridgesSystemState, systemStartTime >>
     ELSE /\ bridgeStates' = BridgeStatesAfter(eventName, data)
          /\ brokerStates' = BrokerStatesAfter(eventName, data)
          /\ bridgesSystemState' =
               IF eventName \in DOMAIN SystemEventState
               THEN Str(<< SystemEventState[eventName] >>)
               ELSE bridgesSystemState
          /\ systemStartTime' =
               CASE eventName \in {"bridges_starting", "bridges_stopped"} -> Null
                 [] eventName = "bridges_started" ->
                      IF Truthy(Get(data, "at")) THEN Get(data, "at") ELSE Now
                 [] OTHER -> systemStartTime
  /\ UNCHANGED << config, latestConfigRef, lastSavedConfigRef, isLoading, requests, steps >>
  /\ UNCHANGED << channelVars, diffVars >>

\* the listener of eventName, run by the EventSource h on an event whose data
\* parses to data
listener(h, eventName, data) ==
  /\ h \in 1..Len(sources)
  /\ sources[h].readyState = "open"
  /\ eventName \in sources[h].listeners
  /\ delivered < MaxEvents
  /\ delivered' = delivered + 1
  /\ IF ListenerThrows(data)
     THEN /\ toasts' = Append(toasts, EventFailed[eventName])
          /\ UNCHANGED << bridgeStates, brokerStates, bridgesSystemState, systemStartTime >>
     ELSE /\ bridgeStates' = BridgeStatesAfter(eventName, data)
          /\ brokerStates' = BrokerStatesAfter(eventName, data)
          /\ bridgesSystemState' =
               IF eventName \in DOMAIN SystemEventState
               THEN Str(<< SystemEventState[eventName] >>)
               ELSE bridgesSystemState
          /\ systemStartTime' =
               CASE eventName \in {"bridges_starting", "bridges_stopped"} -> Null
                 [] eventName = "bridges_started" ->
                      IF Truthy(Get(data, "at")) THEN Get(data, "at") ELSE Now
                 [] OTHER -> systemStartTime
          /\ UNCHANGED toasts
  /\ UNCHANGED << config, latestConfigRef, lastSavedConfigRef, isLoading, requests, steps >>
  /\ UNCHANGED << channelVars, diffVars >>

\* an event of a name without a listener, received by the EventSource h: no
\* code of App runs
ignored(h, eventName) ==
  /\ h \in 1..Len(sources)
  /\ sources[h].readyState = "open"
  /\ eventName \notin sources[h].listeners
  /\ delivered < MaxEvents
  /\ delivered' = delivered + 1
  /\ UNCHANGED << bridgeStates, brokerStates, bridgesSystemState, systemStartTime >>
  /\ UNCHANGED << appVars, channelVars, diffVars >>

\* the instance names the server's events carry: plain, with the name of the
\* bridge put before a "+", and empty
InstanceNames == {<< "i1" >>, << "b1", "+", "i1" >>, <<>>}

\* what the data of an event parses to
Payloads ==
  {Unparsable, Null, Obj(<<>>), Obj([at |-> Num(1)]),
   Obj([name |-> Str(<< "b1" >>)]), Obj([name |-> Str(<<>>)]),
   Obj([bridge |-> Str(<< "b1" >>)]),
   Obj([name |-> Str(<< "b1" >>), bridge |-> Str(<< "b1" >>), instance |-> Str(<< "i1" >>)])}
    \cup {Obj([bridge |-> Str(<< "b1" >>), instance |-> Str(i)]) : i \in InstanceNames}

\* the run's budget of events, reported failures and interactions lasts
InputLeft == steps + delivered + failures < MaxInputs

ErrorStep == InputLeft /\ \E h \in 1..Len(sources) : onerror(h)

TimeoutStep == \E t \in timers : timeoutFired(t)

\* the event names that are delivered with data the listener throws on: one
\* of each family, the catch block being the same for all names
ThrowingEvents == {"bridges_started", "bridge_started", "broker_connected"}

\* the events the server sends: a name and what the data parses to
Deliveries ==
  {i \in events \X Payloads : ListenerThrows(i[2]) => i[1] \in ThrowingEvents}

ListenerStep ==
  /\ InputLeft
  /\ \E h \in 1..Len(sources) : \E i \in Deliveries : listener(h, i[1], i[2])

\* event names the server may send that connectToSSE adds no listener for
UnknownEvents == {"message"}

IgnoredStep ==
  /\ InputLeft
  /\ \E h \in 1..Len(sources) : \E eventName \in UnknownEvents : ignored(h, eventName)

SseNext ==
  \/ Mount
  \/ ErrorStep
  \/ Tick
  \/ TimeoutStep
  \/ cleanup
  \/ ListenerStep
  \/ IgnoredStep

SseSpec == Init /\ [][SseNext]_vars

\* the App component with its event channel: the load, edits that add a bridge
\* and their PATCH responses, interleaved with the steps of the channel while
\* the component stays mounted
AddBridgeStep == InputLeft /\ addBridge

AppNext ==
  \/ Mount
  \/ ErrorStep
  \/ Tick
  \/ TimeoutStep
  \/ ListenerStep
  \/ IgnoredStep
  \/ LoadStep
  \/ AddBridgeStep
  \/ PatchResponseStep

AppSpec == Init /\ [][AppNext]_vars

\* the timeouts of the browser fire and time passes
SseLiveSpec == Init /\ [][SseNext]_vars /\ WF_vars(Tick) /\ WF_vars(TimeoutStep)

(***************************************************************************)
(* Claims                                                                  *)
(***************************************************************************)
\* newV is oldV with elements edited in place and sequence tails grown or
\* shrunk: no key added or removed, no value changing its type
RECURSIVE InPlaceOrTail(_, _)
InPlaceOrTail(a, b) ==
  \/ a = b
  \/ ~IsObject(a) /\ ~IsObject(b)
  \/ /\ a.t = "arr" /\ b.t = "arr"
     /\ \A i \in 1..Len(a.v) : i <= Len(b.v) => InPlaceOrTail(a.v[i], b.v[i])
  \/ /\ a.t = "obj" /\ b.t = "obj"
     /\ DOMAIN a.v = DOMAIN b.v
     /\ \A k \in DOMAIN a.v : InPlaceOrTail(a.v[k], b.v[k])

\* C1: for a composite oldV and a newV that differs from it only by in-place
\* edits and tail growth or shrink, the ops of diff(oldV, newV), applied one
\* after another, all succeed and produce newV.
C1_RoundTrip ==
  (phase = "done" /\ IsObject(oldV) /\ InPlaceOrTail(oldV, newV)) => doc = newV

\* C2: at most one PATCH request is in flight at any time.
C2_SingleFlight == Len(requests) <= 1

\* the step shows the notification
Shows(notification) == toasts' = Append(toasts, notification)

\* the notification has been shown
Shown(notification) == \E n \in 1..Len(toasts) : toasts[n] = notification

\* the patch a fresh diff of the baseline against the working document gives
FreshPatch(baseline, working) ==
  generateJSONPatch(cleanConfig(baseline), cleanConfig(working), <<>>)

\* C3: when a request resolves during whose flight a trigger occurred (a later
\* request stands behind it), exactly one further request is sent in that
\* step, carrying a fresh diff of the baseline against the working document.
C3_PendingTriggerCoalesced ==
  [][\A i \in 1..Len(requests) : \A ok \in BOOLEAN :
       (i < Len(requests) /\ patchResponse(i, ok)) =>
         /\ Len(requests') = Len(requests)
         /\ requests'[Len(requests')].patch
              = FreshPatch(lastSavedConfigRef', latestConfigRef')]_vars

\* C4: when a PATCH succeeds, the baseline in effect as its success handler
\* runs is the one its diff was computed against.
C4_BaselineOfDiff ==
  [][\A i \in 1..Len(requests) :
       patchResponse(i, TRUE) => cleanConfig(lastSavedConfigRef) = requests[i].cleanedOld]_vars

\* a step in which the response of a request was handled without a failure
\* notification
SuccessStep == Len(requests') < Len(requests) /\ ~Shows(SaveFailed)

\* C5: a request carries the working document handed to its trigger, and on
\* its success the baseline becomes exactly that document.
C5_SuccessSetsBaseline ==
  [][/\ Len(requests') > Len(requests) =>
          requests'[Len(requests')].newConfig = latestConfigRef'
     /\ SuccessStep =>
          \E i \in 1..Len(requests) :
            /\ requests' = RemoveAt(requests, i)
            /\ lastSavedConfigRef' = requests[i].newConfig]_vars

\* a success has set the baseline to a document that is not in canonical form
\* and that the working document has moved away from
C5_Witness ==
  /\ lastSavedConfigRef \notin {Null, InitialConfig} \cup ServerDocs
  /\ requests = <<>>
  /\ latestConfigRef # lastSavedConfigRef
  /\ cleanConfig(lastSavedConfigRef) # lastSavedConfigRef

\* C6: a step that shows the save failure leaves the baseline and the working
\* document as they were; it only drops the failed request.
C6_FailureKeepsBaseline ==
  [][Shows(SaveFailed) =>
       /\ lastSavedConfigRef' = lastSavedConfigRef
       /\ config' = config
       /\ latestConfigRef' = latestConfigRef
       /\ \E i \in 1..Len(requests) : requests' = RemoveAt(requests, i)]_vars

\* a PATCH has just failed with unsaved changes left
C6_Witness ==
  /\ Shown(SaveFailed)
  /\ requests = <<>>
  /\ FreshPatch(lastSavedConfigRef, latestConfigRef) # <<>>

\* C7: the step that handles a failed PATCH sends nothing; a request is only
\* ever sent by a user interaction, one at a time, and it carries the diff of
\* the canonical baseline, left as it was, against the canonical document.
C7_RetryOnNextTrigger ==
  [][/\ Shows(SaveFailed) => Len(requests') = Len(requests) - 1
     /\ Len(requests') > Len(requests) =>
          /\ steps' = steps + 1
          /\ lastSavedConfigRef' = lastSavedConfigRef
          /\ requests' = Append(requests,
               [patch |-> FreshPatch(lastSavedConfigRef, latestConfigRef'),
                newConfig |-> latestConfigRef',
                cleanedOld |-> cleanConfig(lastSavedConfigRef)])]_vars

\* after a failure, a later trigger has sent the changes again, together with
\* a newer one
C7_Witness ==
  /\ Shown(SaveFailed)
  /\ Len(requests) = 1
  /\ requests[1].cleanedOld = cleanConfig(lastSavedConfigRef)
  /\ Len(requests[1].patch) >= 2

\* C8: after a failed load the baseline is still unset.
C8_FailedLoadLeavesBaselineUnset == Shown(LoadFailed) => lastSavedConfigRef = Null

\* C9: a user interaction handled while no baseline exists sends no request
\* and leaves the baseline unset; the save handler changes nothing at all.
C9_NoBaselineNoOp ==
  [][/\ (~Truthy(lastSavedConfigRef) /\ steps' = steps + 1) =>
          /\ requests' = requests
          /\ lastSavedConfigRef' = lastSavedConfigRef
     /\ (~Truthy(lastSavedConfigRef) /\ handleSaveToServer) =>
          UNCHANGED << config, latestConfigRef, lastSavedConfigRef, requests >>]_vars

\* the working document was edited and saved before the load completed
C9_Witness ==
  /\ lastSavedConfigRef = Null
  /\ isLoading
  /\ steps > 0
  /\ config # InitialConfig

\* C10: a load that ends on a non-success response or on a body that is no
\* document with a bridges sequence is a failure that leaves the working
\* document alone and does not take the body as baseline; any other load makes
\* the body the working document and the baseline.
C10_LoadOutcome ==
  [][\A response \in LoadResponses :
       loadConfig(response) =>
         IF response.ok /\ IsObject(response.body) /\ IsArray(Get(response.body, "bridges"))
         THEN /\ toasts' = Append(toasts, LoadSucceeded)
              /\ lastSavedConfigRef' = response.body
              /\ config' = response.body
              /\ Truthy(lastSavedConfigRef')
         ELSE /\ toasts' = Append(toasts, LoadFailed)
              /\ config' = config
              /\ lastSavedConfigRef' # response.body
              /\ latestConfigRef' # response.body]_vars

\* a load has failed and the working document is not any body of the server
C10_Witness ==
  /\ Shown(LoadFailed)
  /\ ~isLoading
  /\ config \notin ServerDocs \cup MalformedBodies

NoOpenSource == \A h \in 1..Len(sources) : sources[h].readyState # "open"

\* C12: while the App is mounted and its cleanup has not run, every channel
\* failure, a throwing new EventSource(...) included, is eventually followed
\* by a further connection attempt, however many failures came before; and an
\* attempt that succeeds yields a handle not used before, held by the ref,
\* with a listener for every event name.
C12_ReconnectLiveness ==
  /\ \A k \in 1..(MaxFailures + 1) :
       (mounted /\ cleanups = 0 /\ NoOpenSource /\ attempts = k)
         ~> (attempts > k \/ cleanups > 0)
  /\ [][Len(sources') > Len(sources) =>
          /\ attempts' = attempts + 1
          /\ Len(sources') = Len(sources) + 1
          /\ eventSourceRef' = Len(sources')
          /\ sources'[eventSourceRef'] = OpenSource
          /\ \A h \in 1..Len(sources) : sources'[h].readyState = "closed"]_vars

\* after as many failures as the run allows, a reconnect has opened a
\* connection
C12_Witness ==
  /\ cleanups = 0
  /\ failures = MaxFailures
  /\ Len(sources) >= 2
  /\ eventSourceRef = Len(sources)
  /\ sources[eventSourceRef] = OpenSource

\* C13: once the cleanup has run no EventSource is open, no timeout is pending
\* and both refs are empty; from then on no connection attempt is made, and a
\* further run of the cleanup leaves the channel as it is.
C13_Stop ==
  [][/\ cleanups' > 0 =>
          /\ NoOpenSource'
          /\ timers' = {}
          /\ eventSourceRef' = NoHandle
          /\ reconnectTimeoutRef' = NoTimer
     /\ cleanups > 0 =>
          /\ attempts' = attempts
          /\ UNCHANGED << sources, eventSourceRef, timers, reconnectTimeoutRef >>]_vars

\* the cleanup has run twice, the first time half a delay after a failure,
\* with the reconnect timeout still pending
C13_Witness ==
  /\ cleanups = MaxCleanups
  /\ failures > 0
  /\ elapsed = ReconnectDelay \div 2
  /\ timers = {}

\* the event names of the two status maps, each with the state it names
BridgeTable ==
  { << "bridge_disabled", "disabled" >>, << "bridge_starting", "starting" >>,
    << "bridge_started", "started" >>, << "bridge_stopping", "stopping" >>,
    << "bridge_stopped", "stopped" >> }

BrokerTable ==
  { << "broker_disabled", "disabled" >>, << "broker_connecting", "connecting" >>,
    << "broker_connected", "connected" >>, << "broker_disconnecting", "disconnecting" >>,
    << "broker_disconnected", "disconnected" >> }

\* the map holds the value under the key
Holds(map, key, value) == key \in DOMAIN map /\ map[key] = value

\* the payloads {name: n} and {bridge: b, instance: i} with non-empty strings
NamePayloads == {d \in Payloads : d.t = "obj" /\ DOMAIN d.v = {"name"} /\ d.v.name.v # <<>>}

PairPayloads ==
  {d \in Payloads : d.t = "obj" /\ DOMAIN d.v = {"bridge", "instance"}
                    /\ d.v.bridge.v # <<>> /\ d.v.instance.v # <<>>}

\* C14 as stated: broker_<s> with {bridge: b, instance: i} sets the entry of
\* the nested map at "b/i" to s, and bridge_<s> with {name: n} sets the entry
\* of the top-level map at n to s.
C14_KeyIsBridgeSlashInstance ==
  [][\A h \in 1..Len(sources) :
       /\ \A e \in BrokerTable : \A d \in PairPayloads :
            listener(h, e[1], d) =>
              Holds(brokerStates', d.v.bridge.v \o << "/" >> \o d.v.instance.v, e[2])
       /\ \A e \in BridgeTable : \A d \in NamePayloads :
            listener(h, e[1], d) => Holds(bridgeStates', d.v.name.v, e[2])]_vars

\* the part of a string that follows its last "+", the whole string when it
\* has none
LastSegment(chunks) ==
  CHOOSE r \in {SubSeq(chunks, n, Len(chunks)) : n \in 1..(Len(chunks) + 1)} :
    /\ \A m \in 1..Len(r) : r[m] # "+"
    /\ r = chunks \/ chunks[Len(chunks) - Len(r)] = "+"

\* C14, amended: broker_<s> with {bridge: b, instance: i} sets the entry of the
\* nested map at "b/j" to s, where j is the part of i after its last "+" (i
\* itself when it has none), and bridge_<s> with {name: n} sets the entry of
\* the top-level map at n to s.
C14_EventMapping ==
  [][\A h \in 1..Len(sources) :
       /\ \A e \in BrokerTable : \A d \in PairPayloads :
            listener(h, e[1], d) =>
              Holds(brokerStates',
                    d.v.bridge.v \o << "/" >> \o LastSegment(d.v.instance.v), e[2])
       /\ \A e \in BridgeTable : \A d \in NamePayloads :
            listener(h, e[1], d) => Holds(bridgeStates', d.v.name.v, e[2])]_vars

\* broker_connected has set the entry at "b1/i1"
C14_Witness ==
  /\ delivered > 0
  /\ Holds(brokerStates, << "b1", "/", "i1" >>, "connected")

\* the fields the listener of an event name reads the key from
Required(eventName) ==
  IF eventName \in {e[1] : e \in BridgeTable} THEN {"name"}
  ELSE IF eventName \in {e[1] : e \in BrokerTable} THEN {"bridge", "instance"}
  ELSE {}

\* a payload that is an object with every required field non-empty
WellFormed(eventName, data) ==
  data.t = "obj" /\ \A f \in Required(eventName) : Truthy(Get(data, f))

\* a payload that does not parse or lacks a required field
Malformed(eventName, data) ==
  data = Unparsable \/ \E f \in Required(eventName) : ~Truthy(Get(data, f))

\* the step writes one entry of the map
WritesOne(map, after) == \E k \in DOMAIN after : after = Put(map, k, after[k])

\* C15 as stated: every event name of the table, delivered with a well-formed
\* payload, writes exactly one entry in exactly one of the two maps.
C15_EveryEventWritesOneMap ==
  [][\A h \in 1..Len(sources) : \A e \in events : \A d \in Payloads :
       (listener(h, e, d) /\ WellFormed(e, d)) =>
         \/ WritesOne(bridgeStates, bridgeStates') /\ brokerStates' = brokerStates
         \/ WritesOne(brokerStates, brokerStates') /\ bridgeStates' = bridgeStates]_vars

\* the inputs of the listener with a well-formed payload, by the fields the
\* event name requires
WellFormedInputs(fields) ==
  {i \in events \X Payloads : Required(i[1]) = fields /\ WellFormed(i[1], i[2])}

\* the well-formed inputs of the bridge_ events, of the broker_ events and of
\* the bridges_ events
BridgeInputs == WellFormedInputs({"name"})

BrokerInputs == WellFormedInputs({"bridge", "instance"})

SystemInputs == WellFormedInputs({})

\* the step is the listener run on one of the inputs
Dispatched(inputs) ==
  \E i \in inputs : \E h \in 1..Len(sources) : listener(h, i[1], i[2])

\* C15, amended: every bridge_ and broker_ event name, delivered with a
\* well-formed payload, writes exactly one entry in exactly one of the two
\* maps, bridge_ events in the top-level map and broker_ events in the nested
\* one; the four bridges_ events write neither map and set the system state.
C15_OneEntryOneMap ==
  [][delivered' > delivered =>
       /\ \/ /\ \E k \in DOMAIN bridgeStates' : \E s \in {x[2] : x \in BridgeTable} :
                  bridgeStates' = Put(bridgeStates, k, s)
             /\ brokerStates' = brokerStates
          \/ ~Dispatched(BridgeInputs)
       /\ \/ /\ \E k \in DOMAIN brokerStates' : \E s \in {x[2] : x \in BrokerTable} :
                  brokerStates' = Put(brokerStates, k, s)
             /\ bridgeStates' = bridgeStates
          \/ ~Dispatched(BrokerInputs)
       /\ \/ /\ bridgeStates' = bridgeStates
             /\ brokerStates' = brokerStates
             /\ bridgesSystemState' # Null
          \/ ~Dispatched(SystemInputs)]_vars

\* a bridge_ event has written one entry of the top-level map and nothing else
C15_Witness ==
  /\ delivered > 0
  /\ DOMAIN bridgeStates = {<< "b1" >>}
  /\ brokerStates = <<>>
  /\ bridgesSystemState = Null

\* the inputs of the listener with a malformed payload
MalformedInputs == {i \in events \X Payloads : Malformed(i[1], i[2])}

\* C16: the listener run on a payload that does not parse or lacks a required
\* field leaves both status maps, the EventSource, which stays open, the
\* timeouts, the baseline and the working document as they were.
C16_MalformedDiscarded ==
  [][delivered' > delivered =>
       \/ /\ UNCHANGED << bridgeStates, brokerStates >>
          /\ UNCHANGED << sources, eventSourceRef, timers, reconnectTimeoutRef >>
          /\ eventSourceRef # NoHandle
          /\ sources[eventSourceRef].readyState = "open"
          /\ UNCHANGED << config, latestConfigRef, lastSavedConfigRef >>
       \/ ~Dispatched(MalformedInputs)]_vars

\* an event that did not parse was dispatched and the connection is still open
C16_Witness ==
  /\ delivered > 0
  /\ \E e \in events : Shown(EventFailed[e])
  /\ bridgeStates = <<>>
  /\ brokerStates = <<>>
  /\ eventSourceRef # NoHandle
  /\ sources[eventSourceRef].readyState = "open"
  /\ timers = {}

\* C17: the listener run on a payload that does not parse or lacks a required
\* field shows no notification.
C17_MalformedEventSilent ==
  [][\A h \in 1..Len(sources) : \A e \in events : \A d \in Payloads :
       (listener(h, e, d) /\ Malformed(e, d)) => toasts' = toasts]_vars

\* the path starts with the prefix
StartsWith(path, prefix) ==
  Len(path) >= Len(prefix) /\ SubSeq(path, 1, Len(prefix)) = prefix

\* the emitted ops whose path lies at or under the prefix
OpsUnder(prefix) == SelectSeq(emitted, LAMBDA op : StartsWith(op.path, prefix))

\* C18: the diff of a value against itself is the empty op list.
C18_DiffOfEqualIsEmpty == (phase # "start" /\ oldV = newV) => emitted = <<>>

\* a nested mapping that holds a sequence has been diffed against itself
C18_Witness ==
  /\ phase = "done"
  /\ oldV = newV
  /\ oldV = Obj([a |-> Arr(<< Num(1), Num(1) >>), b |-> Obj([a |-> Num(2)])])

\* for a sequence cut from old to new at the prefix: the removes emitted for
\* its elements are those of the indices from the new length up to the old
\* one, and no op is emitted at or under an index whose elements are equal
Truncated(old, new, prefix) ==
  (IsArray(old) /\ IsArray(new) /\ Len(new.v) < Len(old.v)) =>
    /\ SelectSeq(emitted, LAMBDA op : op.op = "remove" /\ Len(op.path) = Len(prefix) + 1
                                      /\ StartsWith(op.path, prefix))
         = [n \in 1..(Len(old.v) - Len(new.v)) |->
              [op |-> "remove", path |-> Append(prefix, ToString(Len(new.v) + n - 1))]]
    /\ \A n \in 1..Len(new.v) :
         old.v[n] = new.v[n] => OpsUnder(Append(prefix, ToString(n - 1))) = <<>>

\* the diff of a document of two bridges against the document of the first
TwoBridgesCutToOne ==
  generateJSONPatch(Obj([bridges |-> Arr(<< defaultBridge, serverBridge >>)]),
                    Obj([bridges |-> Arr(<< defaultBridge >>)]), <<>>)

\* C19: when a sequence, at the root or under a key or an index, is cut short,
\* the diff holds a remove for exactly the indices from the new length up to
\* the old one and no op at a lower index whose elements are equal; two
\* bridges cut to the first give the single op remove /bridges/1.
C19_Truncation ==
  /\ phase = "done" =>
       /\ Truncated(oldV, newV, <<>>)
       /\ \A k \in KeySet(oldV) \cap KeySet(newV) :
            oldV.t = newV.t => Truncated(Get(oldV, k), Get(newV, k), << k >>)
  /\ TwoBridgesCutToOne = << [op |-> "remove", path |-> << "bridges", "1" >>] >>

\* a sequence was cut by two elements with its first element unchanged
C19_Witness ==
  /\ phase = "done"
  /\ IsArray(oldV)
  /\ IsArray(newV)
  /\ Len(newV.v) > 0
  /\ Len(oldV.v) = Len(newV.v) + 2
  /\ Len(emitted) = 2

\* two unequal values that are not two sequences and not two mappings
Mismatched(a, b) ==
  /\ a # b
  /\ ~(a.t = "arr" /\ b.t = "arr")
  /\ ~(a.t = "obj" /\ b.t = "obj")

\* C20: for two unequal values that are not both sequences and not both
\* mappings, at the root or under a key or an index, the diff holds exactly
\* one replace at their path, carrying the new value, and no other op at or
\* under that path.
C20_TypeMismatchReplaced ==
  phase # "start" =>
    /\ Mismatched(oldV, newV) =>
         emitted = << [op |-> "replace", path |-> RootPath(<<>>), value |-> newV] >>
    /\ \A k \in KeySet(oldV) \cap KeySet(newV) :
         (oldV.t = newV.t /\ Mismatched(Get(oldV, k), Get(newV, k))) =>
           OpsUnder(<< k >>)
             = << [op |-> "replace", path |-> << k >>, value |-> Get(newV, k)] >>

\* a trigger: an interaction that hands a document to sendPatchToServer
Trigger == addBridge \/ RemoveBridgeStep \/ DuplicateBridgeStep \/ handleSaveToServer

\* C21: with a baseline present, a trigger sends exactly one request, carrying
\* the whole diff of the canonical baseline against the canonical working
\* document, when that diff is not empty, and sends nothing when it is empty;
\* a save of a working document that the baseline already equals sends
\* nothing.
C21_OneRequestPerTrigger ==
  [][/\ (Truthy(lastSavedConfigRef) /\ Trigger) =>
          requests' =
            IF FreshPatch(lastSavedConfigRef, latestConfigRef') = <<>> THEN requests
            ELSE Append(requests,
                   [patch |-> FreshPatch(lastSavedConfigRef, latestConfigRef'),
                    newConfig |-> latestConfigRef',
                    cleanedOld |-> cleanConfig(lastSavedConfigRef)])
     /\ (Truthy(lastSavedConfigRef) /\ lastSavedConfigRef = latestConfigRef
          /\ handleSaveToServer) => requests' = requests]_vars

\* a PATCH has succeeded, its document is the baseline and still the working
\* document, nothing is in flight and a further interaction has been handled
C21_Witness ==
  /\ lastSavedConfigRef \notin {Null, InitialConfig} \cup ServerDocs
  /\ lastSavedConfigRef = latestConfigRef
  /\ requests = <<>>
  /\ steps >= 2

(***************************************************************************)
(* Saves of documents that differ in optional fields                       *)
(***************************************************************************)
\* an optional field is absent, present with its empty value, or set
Presence == {"absent", "empty", "set"}

\* the optional fields of a document with one bridge of one broker: disabled
\* of the bridge, disabled of the broker, prefix of both, session_store and
\* mqtt of the broker, and the address of a protocol that is not selected
Shapes ==
  [disabled : Presence, brokerDisabled : Presence \ {"set"}, prefix : Presence \ {"set"},
   session_store : Presence \ {"set"}, mqtt : Presence \ {"set"},
   address : Presence \ {"empty"}]

\* f, with the optional field key absent, empty or set
WithField(f, key, presence, empty, set) ==
  CASE presence = "absent" -> f
    [] presence = "empty" -> Put(f, key, empty)
    [] presence = "set" -> Put(f, key, set)

\* the document of a shape
ShapedDoc(shape) ==
  LET network ==
        Obj(WithField(defaultNetwork.v, "un", shape.address, Null,
                      Obj([path |-> Str(<< "s" >>)])))
      b0 == [network |-> network, topics |-> Arr(<< defaultTopic >>)]
      b1 == WithField(b0, "disabled", shape.brokerDisabled, Bool(FALSE), Bool(TRUE))
      b2 == WithField(b1, "prefix", shape.prefix, Str(<<>>), Str(<< "p" >>))
      b3 == WithField(b2, "session_store", shape.session_store, Str(<<>>), Str(<< "s" >>))
      b4 == WithField(b3, "mqtt", shape.mqtt, Obj(<<>>), defaultMqtt)
      g0 == [name |-> Str(<< "a" >>), brokers |-> Arr(<< Obj(b4) >>)]
      g1 == WithField(g0, "disabled", shape.disabled, Bool(FALSE), Bool(TRUE))
      g2 == WithField(g1, "prefix", shape.prefix, Str(<<>>), Str(<< "p" >>))
  IN Obj([bridges |-> Arr(<< Obj(g2) >>)])

\* the shapes all of whose fields have one presence, as far as they can
Uniform(presence) ==
  [disabled |-> presence,
   brokerDisabled |-> IF presence = "set" THEN "empty" ELSE presence,
   prefix |-> IF presence = "set" THEN "empty" ELSE presence,
   session_store |-> IF presence = "set" THEN "empty" ELSE presence,
   mqtt |-> IF presence = "set" THEN "empty" ELSE presence,
   address |-> IF presence = "empty" THEN "set" ELSE presence]

\* after a successful load of a document the server stores in one of the
\* uniform shapes, and edits that led to a working document of any shape
ShapedInit ==
  /\ \E presence \in Presence : lastSavedConfigRef = ShapedDoc(Uniform(presence))
  /\ \E shape \in Shapes : config = ShapedDoc(shape)
  /\ latestConfigRef = config
  /\ isLoading = FALSE
  /\ requests = <<>>
  /\ toasts = << LoadSucceeded >>
  /\ steps = 0
  /\ ChannelInit
  /\ StatusInit
  /\ oldV = Null
  /\ newV = Null
  /\ emitted = <<>>
  /\ applied = 0
  /\ doc = Null
  /\ phase = "idle"

ShapedNext == handleSaveToServer \/ PatchResponseStep

ShapedSpec == ShapedInit /\ [][ShapedNext]_vars

\* the shape of a shaped document
ShapeOf(cfg) == CHOOSE shape \in Shapes : ShapedDoc(shape) = cfg

\* two shapes differ only in optional fields being absent or empty, or in the
\* address of a protocol that is not selected
AbsentOrEmptyOnly(v, w) == (v.disabled = "set") <=> (w.disabled = "set")

\* C22: when the baseline and the working document differ only in optional
\* fields being absent or empty (disabled absent or false, prefix absent or
\* "", session_store absent or "", mqtt absent or {}) or in the address of a
\* protocol that is not selected, their canonical diff is empty and a save
\* sends no request.
C22_AbsentIsEmpty ==
  [][(handleSaveToServer
      /\ AbsentOrEmptyOnly(ShapeOf(lastSavedConfigRef), ShapeOf(latestConfigRef))) =>
       /\ FreshPatch(lastSavedConfigRef, latestConfigRef) = <<>>
       /\ requests' = requests]_vars

\* a save has run on a working document that is not the baseline and differs
\* from it in absent or empty fields only, and nothing was sent
C22_Witness ==
  /\ steps > 0
  /\ requests = <<>>
  /\ ~Shown(SaveFailed)
  /\ lastSavedConfigRef # latestConfigRef
  /\ lastSavedConfigRef \in {ShapedDoc(Uniform(presence)) : presence \in Presence}
  /\ latestConfigRef \in {ShapedDoc(shape) : shape \in Shapes}
  /\ AbsentOrEmptyOnly(ShapeOf(lastSavedConfigRef), ShapeOf(latestConfigRef))

(***************************************************************************)
(* Runs in which every edit appends a bridge                               *)
(***************************************************************************)
\* every edit is a trigger and makes the document longer than any earlier
\* one, so latestConfigRef is the document of the most recent trigger and a
\* trigger sends a request unless the baseline is that very document
GrowNext ==
  \/ addBridge
  \/ DuplicateBridgeStep
  \/ handleSaveToServer
  \/ LoadStep
  \/ PatchResponseStep

GrowSpec == Init /\ [][GrowNext]_vars

\* C23: when the load has succeeded and every PATCH request has resolved with
\* success, the baseline is the document of the most recent trigger, in
\* whichever order the responses arrived.
C23_BaselineNeverRegresses ==
  (requests = <<>> /\ Shown(LoadSucceeded) /\ ~Shown(SaveFailed)) =>
    lastSavedConfigRef = latestConfigRef

\* new is the sequence old with one or more elements appended
Appended(old, new) ==
  /\ IsArray(old)
  /\ IsArray(new)
  /\ Len(new.v) > Len(old.v)
  /\ SubSeq(new.v, 1, Len(old.v)) = old.v

\* for a sequence grown at its end from old to new at the prefix: the ops at
\* or under the prefix are one add for each new index, in ascending order,
\* each carrying the whole new element
Grown(old, new, prefix) ==
  Appended(old, new) =>
    OpsUnder(prefix)
      = [n \in 1..(Len(new.v) - Len(old.v)) |->
           [op |-> "add", path |-> Append(prefix, ToString(Len(old.v) + n - 1)),
            value |-> new.v[Len(old.v) + n]]]

\* the initial document with one more topic at the end of the topics of
\* broker 1 of bridge 0
TopicAppended ==
  LET brokers == Get(defaultBridge, "brokers").v
      topics == Get(brokers[2], "topics").v
      grown == Obj(Put(brokers[2].v, "topics",
                       Arr(Append(topics, Obj([topic |-> Str(<< "a" >>), qos |-> Num(1)])))))
  IN Obj([bridges |-> Arr(<< Obj(Put(defaultBridge.v, "brokers",
                                     Arr(<< brokers[1], grown >>))) >>)])

\* the diff of the initial document against the one with the topic appended
TopicAppendedPatch == generateJSONPatch(InitialConfig, TopicAppended, <<>>)

\* C24: when elements are appended to the end of a sequence, at the root or
\* under a key or an index, the diff holds exactly one add for each new
\* index, in ascending order under the path of the sequence, carrying the
\* whole new element, and no other op; one topic appended to broker 1 of
\* bridge 0 gives the single op add /bridges/0/brokers/1/topics/1.
C24_TailGrowth ==
  /\ phase = "done" =>
       /\ Grown(oldV, newV, <<>>)
       /\ \A k \in KeySet(oldV) \cap KeySet(newV) :
            (/\ oldV.t = newV.t
             /\ Appended(Get(oldV, k), Get(newV, k))
             /\ \A j \in (KeySet(oldV) \cup KeySet(newV)) \ {k} :
                  Get(oldV, j) = Get(newV, j)) =>
              /\ Grown(Get(oldV, k), Get(newV, k), << k >>)
              /\ emitted = OpsUnder(<< k >>)
  /\ TopicAppendedPatch
       = << [op |-> "add", path |-> << "bridges", "0", "brokers", "1", "topics", "1" >>,
             value |-> Obj([topic |-> Str(<< "a" >>), qos |-> Num(1)])] >>

\* two elements were appended to a sequence nested under an index
C24_Witness ==
  /\ phase = "done"
  /\ oldV = Arr(<< Arr(<<>>) >>)
  /\ newV = Arr(<< Arr(<< Num(1), Num(1) >>) >>)
  /\ Len(emitted) = 2

\* the elements of the sequence are scalars, no two of them equal
DistinctScalars(seq) ==
  /\ \A n \in 1..Len(seq) : seq[n].t \in {"null", "bool", "num", "str"}
  /\ \A m, n \in 1..Len(seq) : m # n => seq[m] # seq[n]

\* for a sequence of different scalars whose element at index k, not the last
\* one, is deleted: the ops at or under the prefix are a replace at every index
\* from k up to the last but one, carrying the element that moved there, and
\* then one remove at the last index
Shifted(old, new, prefix) ==
  \A k \in 0..(Len(old.v) - 2) :
    (DistinctScalars(old.v) /\ new = Arr(RemoveAt(old.v, k + 1))) =>
      OpsUnder(prefix)
        = [n \in 1..(Len(old.v) - k) |->
             IF n < Len(old.v) - k
             THEN [op |-> "replace", path |-> Append(prefix, ToString(k + n - 1)),
                   value |-> old.v[k + n + 1]]
             ELSE [op |-> "remove", path |-> Append(prefix, ToString(Len(old.v) - 1))]]

\* C25: sequences are compared index by index: when the element at an index k
\* that is not the last one is deleted from a sequence of different scalars,
\* at the root or under a key, the diff holds a replace at every index from k
\* to the last but one, each carrying the shifted value, followed by one
\* remove at the last index, and no op that deletes index k.
C25_PositionalDeletion ==
  phase = "done" =>
    /\ IsArray(oldV) => Shifted(oldV, newV, <<>>)
    /\ \A key \in KeySet(oldV) \cap KeySet(newV) :
         (oldV.t = newV.t /\ IsArray(Get(oldV, key))) =>
           Shifted(Get(oldV, key), Get(newV, key), << key >>)

\* the first of three different scalars was deleted: two replaces, one remove
C25_Witness ==
  /\ phase = "done"
  /\ oldV = Arr(<< Num(1), Num(2), Str(<< "a" >>) >>)
  /\ newV = Arr(<< Num(2), Str(<< "a" >>) >>)
  /\ Len(emitted) = 3
  /\ emitted[3].op = "remove"

\* the handles of the EventSource objects that are open
OpenHandles(srcs) == {h \in 1..Len(srcs) : srcs[h].readyState = "open"}

\* C29: at most one EventSource is open at any time, and it is the one
\* eventSourceRef holds; a step that creates an EventSource leaves every
\* earlier one closed; a channel failure leaves the failed EventSource closed
\* and eventSourceRef empty, and eventSourceRef stays empty until the mount
\* effect runs or a due reconnect timeout fires.
C29_SingleHandle ==
  [][/\ Cardinality(OpenHandles(sources')) <= 1
     /\ OpenHandles(sources') \subseteq {eventSourceRef'}
     /\ Len(sources') > Len(sources) =>
          /\ OpenHandles(sources') = {Len(sources')}
          /\ \A h \in 1..Len(sources) : sources'[h].readyState = "closed"
     /\ ErrorStep =>
          /\ OpenHandles(sources') = {}
          /\ eventSourceRef' = NoHandle
     /\ (eventSourceRef = NoHandle /\ eventSourceRef' # NoHandle) =>
          /\ attempts' = attempts + 1
          /\ \/ ~mounted
             \/ \E t \in timers : t.remaining <= 0 /\ t \notin timers']_vars

\* after a channel failure and a reconnect the first EventSource is closed and
\* the second one is open and held by eventSourceRef
C29_Witness ==
  /\ Len(sources) = 2
  /\ sources[1].readyState = "closed"
  /\ sources[2].readyState = "open"
  /\ eventSourceRef = 2
  /\ failures = 1

\* every input of the listener
AllInputs == events \X Payloads

\* C27: a step changes bridgeStates or brokerStates only when it is the
\* listener of a recognized event name; an event of an unrecognized name, the
\* creation of an EventSource, a channel failure, a reconnect timeout that
\* fires, the end of the load, a user interaction and a PATCH response leave
\* both maps as they were.
C27_OnlyDispatchWrites ==
  [][/\ (bridgeStates' # bridgeStates \/ brokerStates' # brokerStates) =>
          delivered' > delivered /\ Dispatched(AllInputs)
     /\ \/ UNCHANGED << bridgeStates, brokerStates >>
        \/ ~ \/ IgnoredStep
             \/ attempts' > attempts
             \/ failures' > failures
             \/ \E t \in timers : t.remaining <= 0 /\ t \notin timers'
             \/ isLoading /\ ~isLoading'
             \/ steps' > steps
             \/ Len(requests') < Len(requests)]_vars

\* an event has written an entry, the load has ended, a bridge was added and
\* its PATCH has succeeded, and the entry is still there
C27_Witness ==
  /\ bridgeStates # <<>> \/ brokerStates # <<>>
  /\ ~isLoading
  /\ steps > 0
  /\ requests = <<>>
  /\ lastSavedConfigRef \notin {Null, InitialConfig} \cup ServerDocs

\* the entry of the map at the key is new or has another value after the step
Rewritten(map, after, key) == key \notin DOMAIN map \/ after[key] # map[key]

\* the key of the nested map an input with a bridge and an instance stands for
EntryKey(data) == data.v.bridge.v \o << "/" >> \o LastSegment(data.v.instance.v)

\* C26: no step removes a key from bridgeStates or brokerStates; an entry is
\* created or changed only by the listener of a well-formed event for its key,
\* which leaves the state the event names; and every well-formed event for a
\* key leaves that state under the key, whatever the entry held before.
C26_LastWriteWins ==
  [][/\ DOMAIN bridgeStates \subseteq DOMAIN bridgeStates'
     /\ DOMAIN brokerStates \subseteq DOMAIN brokerStates'
     /\ \A k \in DOMAIN bridgeStates' :
          Rewritten(bridgeStates, bridgeStates', k) =>
            \E i \in BridgeInputs : \E e \in BridgeTable :
              /\ e[1] = i[1]
              /\ i[2].v.name.v = k
              /\ bridgeStates'[k] = e[2]
              /\ Dispatched({i})
     /\ \A k \in DOMAIN brokerStates' :
          Rewritten(brokerStates, brokerStates', k) =>
            \E i \in BrokerInputs : \E e \in BrokerTable :
              /\ e[1] = i[1]
              /\ EntryKey(i[2]) = k
              /\ brokerStates'[k] = e[2]
              /\ Dispatched({i})
     /\ delivered' > delivered =>
          /\ \A i \in BridgeInputs : \A e \in BridgeTable :
               (e[1] = i[1] /\ Dispatched({i})) =>
                 Holds(bridgeStates', i[2].v.name.v, e[2])
          /\ \A i \in BrokerInputs : \A e \in BrokerTable :
               (e[1] = i[1] /\ Dispatched({i})) =>
                 Holds(brokerStates', EntryKey(i[2]), e[2])]_vars

\* two events have been received and the top-level map holds one entry, whose
\* state is the one the later of two events for its key names
C26_Witness ==
  /\ delivered = 2
  /\ bridgeStates = [k \in {<< "b1" >>} |-> "stopped"]
  /\ brokerStates = <<>>
  /\ bridgesSystemState = Null
  /\ toasts = <<>>

\* the bridge and the instance a payload names
Pair(data) == << data.v.bridge, data.v.instance >>

\* C30: two broker events whose bridge and instance differ never write the
\* same entry of brokerStates: no step that writes the map is the listener run
\* on either of two payloads that name different pairs, and the keys of the
\* pairs ("a/b", "c") and ("a", "b/c") differ.
C30_KeyIsIdentifier ==
  [][brokerStates' # brokerStates =>
       /\ \A i \in BrokerInputs : \A j \in BrokerInputs :
            Pair(i[2]) # Pair(j[2]) => ~(Dispatched({i}) /\ Dispatched({j}))
       /\ BrokerKey(Str(<< "a", "/", "b" >>), InstanceName(Str(<< "c" >>)))
            # BrokerKey(Str(<< "a" >>), InstanceName(Str(<< "b", "/", "c" >>)))]_vars

\* C28: a user interaction (add, remove, duplicate or update of a bridge, a
\* field change, a save) leaves the baseline as it was, also when the working
\* document it edits is the document that was last loaded or saved.
C28_EditsKeepBaseline ==
  [][(steps' > steps \/ (config' # config /\ isLoading' = isLoading)) =>
       lastSavedConfigRef' = lastSavedConfigRef]_vars

\* the loaded document was edited, nothing was sent for it, and the baseline
\* is still the loaded document
C28_Witness ==
  /\ toasts = << LoadSucceeded >>
  /\ lastSavedConfigRef \in ServerDocs
  /\ config # lastSavedConfigRef
  /\ requests = <<>>
  /\ steps > 0

====
